---- MODULE Spec2Model ----
(***************************************************************************)
(* Query routing and hybrid retrieval of the AI-search repository:         *)
(*   - agent_JH.py / main_JH.py : the LangGraph agent (entry, strategy,    *)
(*     search and answer nodes with their routing functions) behind        *)
(*     RAGSystem.ask;                                                      *)
(*   - total_rag_test.py : HybridInternalExternalRAG (ask, hybrid_search,  *)
(*     internal_search, external_search, context and answer generation);   *)
(*   - the embedding cache and the query preprocessor both classes share.  *)
(*                                                                         *)
(* A string is a sequence of characters.  A Hangul syllable is one         *)
(* character, written here by its romanisation ("guk" is the syllable of   *)
(* "guk-hoe", the National Assembly); " " is the space.  Substring tests   *)
(* (Python's `in`) are computed on these sequences.                        *)
(***************************************************************************)
EXTENDS Integers, Sequences, FiniteSets, TLC

VARIABLES
    prog,               \* which entry point runs: "agent", "hybrid", "fn", "cache"
    pc,                 \* position of the running request
    query,              \* AgentState.query / the query argument
    messages,           \* AgentState.messages (contents of the human messages)
    search_strategy,    \* AgentState.search_strategy / strategy argument
    internal_results,   \* AgentState.internal_results / internal_docs
    external_results,   \* AgentState.external_results / external_docs
    documents,          \* hybrid_search's merged list
    final_answer,       \* AgentState.final_answer / the answer returned
    step_count,         \* AgentState.step_count
    k,                  \* the k argument of hybrid_search
    req,                \* sizes requested from the retrievers: [int, ext]
    branch,             \* the two retrieval tasks: [int, ext] -> position
    calls,              \* number of calls of each collaborator
    tavily_client,      \* TRUE iff TAVILY_API_KEY is configured
    embedding_cache,    \* the dict, as the sequence of its items in insertion order
    processed,          \* result of the preprocessor
    cache_log,          \* what is recorded of the _get_cached_embedding calls made
    threads,            \* the worker threads inside _get_cached_embedding
    context,            \* what generate_accessible_context returned
    result,             \* what the ask method handed to its caller
    response            \* what ask_rag_endpoint answered the HTTP request with

\* what a request hands out
outVars == << context, result, response >>

\* the request-scoped state of the agent and of HybridInternalExternalRAG.ask
reqVars == << messages, internal_results, external_results, documents,
              final_answer, step_count, k, req, branch, outVars >>

reqVars_but_branch == << messages, internal_results, external_results, documents,
                         final_answer, step_count, k, req, outVars >>

\* the collaborators and the cache
cacheVars == << tavily_client, embedding_cache, cache_log, threads >>

envVars == << calls, cacheVars >>

vars == << prog, pc, query, search_strategy, processed, reqVars, envVars >>

-----------------------------------------------------------------------------
(* Bounds of the model *)

\* longest query, in words, of the queries the pure functions are applied to
MaxWords == 2

-----------------------------------------------------------------------------
(* Strings *)

SP == " "

\* str.lower(): of the characters used, only the Latin capitals change
LowerChar(c) ==
    IF c = "A" THEN "a" ELSE IF c = "I" THEN "i" ELSE c

Lower(s) == [i \in 1..Len(s) |-> LowerChar(s[i])]

\* Python's `key in text` on strings
InStr(key, text) ==
    \E i \in 1..(Len(text) - Len(key) + 1) :
        SubSeq(text, i, i + Len(key) - 1) = key

\* f"{a} {b}"
WithSpace(a, b) == a \o <<SP>> \o b

-----------------------------------------------------------------------------
(* Keyword lists of the strategy analysers *)

\* agent_JH.py, strategy_analyzer_tool
assembly_keywords ==
    << <<"guk","hoe">>, <<"ui","won">>, <<"guk","jeong","gam","sa">>,
       <<"guk","gam">>, <<"hoe","ui","rok">>, <<"bon","hoe","ui">>,
       <<"wi","won","hoe">>, <<"beop","an">>, <<"ye","san">>,
       <<"jeong","bu">>, <<"jang","gwan">>, <<"dae","tong","ryeong">>,
       <<"ui","jang">>, <<"guk","hoe","ui","won">>, <<"bal","ui","an">> >>

\* total_rag_test.py, _determine_search_strategy: the same list without "bal-ui-an"
rag_assembly_keywords == SubSeq(assembly_keywords, 1, 14)

current_keywords ==
    << <<"choe","geun">>, <<"hyeon","jae">>, <<"ji","geum">>, <<"o","neul">>,
       <<"i","beon">>, <<"ol","hae">>, <<"2","0","2","4">>, <<"2","0","2","5">>,
       <<"choe","sin">>, <<"dong","hyang">>, <<"teu","ren","deu">>,
       <<"nyu","seu">>, <<"so","sik">> >>

general_keywords ==
    << <<"seol","myeong">>, <<"jeong","ui">>, <<"ui","mi">>, <<"gae","nyeom">>,
       <<"yeok","sa">>, <<"bae","gyeong">>, <<"won","in">>, <<"i","yu">> >>

\* sum(1 for keyword in keywords if keyword in query_lower)
RECURSIVE ScoreFrom(_, _, _)
ScoreFrom(keywords, text, i) ==
    IF i > Len(keywords) THEN 0
    ELSE (IF InStr(keywords[i], text) THEN 1 ELSE 0) + ScoreFrom(keywords, text, i + 1)

Score(keywords, text) == ScoreFrom(keywords, text, 1)

Strategies ==
    {"internal_only", "external_priority", "hybrid_balanced", "hybrid_internal_priority"}

\* Decide with the recency test moved before the assembly test
DecideRecencyFirst(assembly_score, current_score, general_score) ==
    IF current_score >= 1 THEN "external_priority"
    ELSE IF assembly_score >= 2 THEN "internal_only"
    ELSE IF general_score >= 1 THEN "hybrid_balanced"
    ELSE "hybrid_internal_priority"

\* the if / elif chain both analysers end with
Decide(assembly_score, current_score, general_score) ==
    IF assembly_score >= 2 THEN "internal_only"
    ELSE IF current_score >= 1 THEN "external_priority"
    ELSE IF general_score >= 1 THEN "hybrid_balanced"
    ELSE "hybrid_internal_priority"

strategy_analyzer_tool(q) ==
    LET query_lower == Lower(q) IN
    Decide(Score(assembly_keywords, query_lower),
           Score(current_keywords, query_lower),
           Score(general_keywords, query_lower))

determine_search_strategy(q) ==
    LET query_lower == Lower(q) IN
    Decide(Score(rag_assembly_keywords, query_lower),
           Score(current_keywords, query_lower),
           Score(general_keywords, query_lower))

-----------------------------------------------------------------------------
(* The query preprocessor *)

\* agent_JH.py, _preprocess_query_for_context: the items of query_corrections
query_corrections ==
    << [key |-> <<"jeo","chul","san">>,
        expansion |-> <<"jeo","chul","saeng">>],
       [key |-> <<"jeo","chul","saeng">>,
        expansion |-> <<"jeo","chul","saeng",SP,"jeo","chul","san",SP,"chul","saeng","ryul">>],
       [key |-> <<"gi","hu","byeon","hwa">>,
        expansion |-> <<"gi","hu","byeon","hwa",SP,"hwan","gyeong",SP,"tan","so","jung","rip">>],
       [key |-> <<"bu","dong","san">>,
        expansion |-> <<"bu","dong","san",SP,"ju","taek",SP,"im","dae","ryo">>],
       [key |-> <<"gyo","yuk">>,
        expansion |-> <<"gyo","yuk",SP,"hak","gyo",SP,"dae","hak",SP,"hak","saeng">>],
       [key |-> <<"ui","ryo">>,
        expansion |-> <<"ui","ryo",SP,"byeong","won",SP,"geon","gang","bo","heom">>],
       [key |-> <<"bok","ji">>,
        expansion |-> <<"bok","ji",SP,"sa","hoe","bo","jang",SP,"yeon","geum">>],
       [key |-> <<"gyeong","je">>,
        expansion |-> <<"gyeong","je",SP,"il","ja","ri",SP,"go","yong">>],
       [key |-> <<"guk","jeong","gam","sa">>,
        expansion |-> <<"guk","jeong","gam","sa",SP,"guk","gam">>],
       [key |-> <<"ye","san">>,
        expansion |-> <<"ye","san",SP,"jae","jeong",SP,"se","geum">>],
       [key |-> <<"hwan","gyeong">>,
        expansion |-> <<"hwan","gyeong",SP,"gi","hu","byeon","hwa",SP,"tan","so","jung","rip",SP,"chin","hwan","gyeong">>],
       [key |-> <<"bal","ui","an">>,
        expansion |-> <<"bal","ui","an",SP,"beop","an",SP,"ui","an">>] >>

\* total_rag_test.py and naive_rag_test.py: the first ten items only
rag_query_corrections == SubSeq(query_corrections, 1, 10)

\* ExpandFrom without the break: the last key found in the query expands it
RECURSIVE ExpandNoBreakFrom(_, _, _)
ExpandNoBreakFrom(table, q, i) ==
    IF i > Len(table) THEN q
    ELSE LET rest == ExpandNoBreakFrom(table, q, i + 1) IN
         IF rest # q THEN rest
         ELSE IF InStr(table[i].key, q) THEN WithSpace(q, table[i].expansion)
         ELSE q

\* the for loop over the items: the first key found in the query expands it
RECURSIVE ExpandFrom(_, _, _)
ExpandFrom(table, q, i) ==
    IF i > Len(table) THEN q
    ELSE IF InStr(table[i].key, q) THEN WithSpace(q, table[i].expansion)
    ELSE ExpandFrom(table, q, i + 1)

preprocess_query_for_context(q) == ExpandFrom(query_corrections, q, 1)

rag_preprocess_query_for_context(q) == ExpandFrom(rag_query_corrections, q, 1)

-----------------------------------------------------------------------------
(* Values the request state starts from *)

NoDocs == << >>

\* no collaborator called yet (chat_error: what the last chat completion
\* raised; tavily_answer, tavily_results: whether the last search response
\* had an answer, and how many results; ran: the nodes of the graph that
\* were run, in the order they were entered; finished: the retrievals in
\* the order they completed)
NoCalls ==
    [internal |-> 0, external |-> 0, embed |-> 0, index |-> 0, tavily |-> 0, chat |-> 0,
     chat_error |-> "none", tavily_answer |-> "none", tavily_results |-> 0,
     ran |-> << >>, finished |-> << >>]

IdleBranch == [st |-> "idle", docs |-> NoDocs, err |-> "none"]

\* no call of _get_cached_embedding made yet
NoCall == [text |-> << >>, outcome |-> "none", vector |-> "none", provider_calls |-> 0,
           before |-> << >>]

\* born: for each text stored so far, the number of the provider call that
\* brought its latest entry
NoLog == [last |-> NoCall, prev |-> [text |-> << >>, outcome |-> "none"], served |-> {},
          born |-> {}]

\* nothing rendered, nothing returned by ask, no HTTP response sent
NoContext == << >>

NoResult == [st |-> "none", error |-> FALSE, answer |-> "", search_strategy |-> "",
             internal_count |-> 0, external_count |-> 0, step_count |-> 0, keys |-> {}]

NoResponse == [status |-> 0, detail |-> ""]

OutIdle ==
    /\ context = NoContext
    /\ result = NoResult
    /\ response = NoResponse

\* no request running: used by the specifications that apply single functions
ReqIdle ==
    /\ OutIdle
    /\ messages = << >>
    /\ internal_results = NoDocs
    /\ external_results = NoDocs
    /\ documents = NoDocs
    /\ final_answer = ""
    /\ step_count = 0
    /\ k = 0
    /\ req = [int |-> 0, ext |-> 0]
    /\ branch = [int |-> IdleBranch, ext |-> IdleBranch]

EnvIdle ==
    /\ threads = << >>
    /\ calls = NoCalls
    /\ tavily_client = FALSE
    /\ embedding_cache = << >>
    /\ cache_log = NoLog

-----------------------------------------------------------------------------
(* SpecQuery: the strategy analysers and the preprocessors applied to queries *)

Vocabulary ==
    { <<"guk","hoe","ui","won">>,               \* three assembly keywords in one word
      <<"guk","jeong","gam","sa","e","seo">>,   \* one assembly keyword, an expansion key
      <<"ye","san">>,                           \* assembly keyword and expansion key
      <<"bal","ui","an">>,                      \* keyword and key of agent_JH.py only
      <<"ui","won","in">>,                      \* assembly "ui-won" overlapping general "won-in"
      <<"choe","geun">>,                        \* recency keyword
      <<"2","0","2","5">>,                      \* recency keyword
      <<"jeong","ui">>,                         \* general keyword
      <<"jeo","chul","san">>,                   \* first expansion key
      <<"jeo","chul","saeng">>,                 \* second expansion key
      <<"gi","hu","byeon","hwa">>,              \* third expansion key
      <<"hwan","gyeong">>,                      \* eleventh expansion key
      <<"mun","je">>,                           \* matches nothing
      <<"A","I">> }                             \* Latin capitals

RECURSIVE JoinWords(_)
JoinWords(ws) ==
    IF ws = << >> THEN << >>
    ELSE IF Len(ws) = 1 THEN ws[1]
    ELSE WithSpace(ws[1], JoinWords(Tail(ws)))

FnQueries ==
    { JoinWords(ws) : ws \in UNION { [1..n -> Vocabulary] : n \in 0..MaxWords } }

InitQuery ==
    /\ prog = "fn"
    /\ pc = "input"
    /\ query \in FnQueries
    /\ search_strategy = ""
    /\ processed = << >>
    /\ ReqIdle
    /\ EnvIdle

\* strategy_analyzer_tool.invoke({"query": query})
ApplyStrategyAnalyzer ==
    /\ prog = "fn" /\ pc = "input"
    /\ search_strategy' = strategy_analyzer_tool(query)
    /\ pc' = "classified"
    /\ UNCHANGED << prog, query, processed, reqVars, envVars >>

\* HybridInternalExternalRAG._determine_search_strategy(query)
ApplyDetermineStrategy ==
    /\ prog = "fn" /\ pc = "input"
    /\ search_strategy' = determine_search_strategy(query)
    /\ pc' = "classified_rag"
    /\ UNCHANGED << prog, query, processed, reqVars, envVars >>

\* SearchAgents._preprocess_query_for_context(query)
ApplyPreprocess ==
    /\ prog = "fn" /\ pc = "input"
    /\ processed' = preprocess_query_for_context(query)
    /\ pc' = "expanded"
    /\ UNCHANGED << prog, query, search_strategy, reqVars, envVars >>

\* HybridInternalExternalRAG._preprocess_query_for_context(query)
ApplyRagPreprocess ==
    /\ prog = "fn" /\ pc = "input"
    /\ processed' = rag_preprocess_query_for_context(query)
    /\ pc' = "expanded_rag"
    /\ UNCHANGED << prog, query, search_strategy, reqVars, envVars >>

NextQuery ==
    \/ ApplyStrategyAnalyzer
    \/ ApplyDetermineStrategy
    \/ ApplyPreprocess
    \/ ApplyRagPreprocess

SpecQuery == InitQuery /\ [][NextQuery]_vars

-----------------------------------------------------------------------------
(* Documents and collaborators *)

\* most documents one provider response holds in the model
MaxDocs == 3

\* largest k that HybridInternalExternalRAG.ask is called with in the model
MaxK == 5

\* capacity of the embedding cache (self.max_cache_size, 1000 in the code),
\* scaled down
max_cache_size == 2

\* the vectors the embedding provider may answer with
Vectors == {"v1", "v2"}

\* scores: the 1.0 given to the summary, and whatever the provider gave a hit
SummaryScore == "1.0"
ProviderScore == "score of the provider"

\* what internal_search builds from the hits of the index, in the index's order
InternalList(n) ==
    [i \in 1..n |-> [source_type |-> "internal", rank |-> i, score |-> ProviderScore]]

\* the summary appended after the results
ExternalListSummaryLast(answer, n) ==
    [i \in 1..n |-> [source_type |-> "external", rank |-> i, score |-> ProviderScore]]
    \o (IF answer THEN << [source_type |-> "external_summary", rank |-> 0,
                           score |-> SummaryScore] >>
        ELSE << >>)

\* what external_search builds from the provider's response: the summary
\* first when the response has one, then the results in the provider's order
ExternalList(answer, n) ==
    (IF answer THEN << [source_type |-> "external_summary", rank |-> 0,
                        score |-> SummaryScore] >>
     ELSE << >>)
    \o [i \in 1..n |-> [source_type |-> "external", rank |-> i, score |-> ProviderScore]]

Min(a, b) == IF a <= b THEN a ELSE b
Max(a, b) == IF a >= b THEN a ELSE b

\* Python's xs[:n] for n >= 0
Take(xs, n) == SubSeq(xs, 1, Min(n, Len(xs)))

-----------------------------------------------------------------------------
(* The embedding cache: a dict, kept as the sequence of its items *)

CacheKeys(cache) == { cache[i].key : i \in 1..Len(cache) }

CacheValue(cache, text) ==
    cache[CHOOSE i \in 1..Len(cache) : cache[i].key = text].value

\* the size test left out: nothing is ever evicted
EvictNever(cache) == cache

\* the entry stored last is the one deleted
EvictNewest(cache) ==
    IF Len(cache) >= max_cache_size THEN SubSeq(cache, 1, Len(cache) - 1) ELSE cache

\* `if len(cache) >= max_cache_size: del cache[next(iter(cache))]`
EvictIfFull(cache) ==
    IF Len(cache) >= max_cache_size THEN Tail(cache) ELSE cache

\* the assignment left out: the vector is returned and not kept
StoreNothing(cache, text, vector) == cache

\* `cache[text] = embedding`: a new key goes last, a present key keeps its place
Store(cache, text, vector) ==
    IF text \in CacheKeys(cache)
    THEN [i \in 1..Len(cache) |->
            IF cache[i].key = text THEN [key |-> text, value |-> vector] ELSE cache[i]]
    ELSE Append(cache, [key |-> text, value |-> vector])

\* the eviction made after the provider call has returned, next to the store
GetCachedEmbeddingEvictingLate(cache, text) ==
    IF text \in CacheKeys(cache)
    THEN { [outcome |-> "hit", vector |-> CacheValue(cache, text), provider_calls |-> 0,
            cache |-> cache] }
    ELSE { [outcome |-> "miss_ok", vector |-> v, provider_calls |-> 1,
            cache |-> Store(EvictIfFull(cache), text, v)] : v \in Vectors }
         \cup
         { [outcome |-> "miss_fail", vector |-> "none", provider_calls |-> 1,
            cache |-> cache] }

\* a failed provider call leaving an entry without a vector behind
GetCachedEmbeddingKeepingFailure(cache, text) ==
    IF text \in CacheKeys(cache)
    THEN { [outcome |-> "hit", vector |-> CacheValue(cache, text), provider_calls |-> 0,
            cache |-> cache] }
    ELSE { [outcome |-> "miss_ok", vector |-> v, provider_calls |-> 1,
            cache |-> Store(EvictIfFull(cache), text, v)] : v \in Vectors }
         \cup
         { [outcome |-> "miss_fail", vector |-> "none", provider_calls |-> 1,
            cache |-> Store(EvictIfFull(cache), text, "none")] }

\* _get_cached_embedding(text) on a cache: the ways the call can end, each
\* with the cache it leaves.  A hit returns the stored vector; a miss evicts
\* when the cache is full, calls the provider once, and stores and returns
\* the vector, or raises what the provider raised.
GetCachedEmbedding(cache, text) ==
    IF text \in CacheKeys(cache)
    THEN { [outcome |-> "hit", vector |-> CacheValue(cache, text), provider_calls |-> 0,
            cache |-> cache] }
    ELSE { [outcome |-> "miss_ok", vector |-> v, provider_calls |-> 1,
            cache |-> Store(EvictIfFull(cache), text, v)] : v \in Vectors }
         \cup
         { [outcome |-> "miss_fail", vector |-> "none", provider_calls |-> 1,
            cache |-> EvictIfFull(cache)] }

-----------------------------------------------------------------------------
(* The merge policies of hybrid_search *)

\* for i in range(max_len): append internal[i], append external[i] where they
\* exist; break once len(documents) >= k   (i counts from 1 here)
RECURSIVE InterleaveFrom(_, _, _, _, _)
InterleaveFrom(internal_docs, external_docs, kk, i, acc) ==
    IF i > Max(Len(internal_docs), Len(external_docs)) THEN acc
    ELSE LET a == IF i <= Len(internal_docs) THEN Append(acc, internal_docs[i]) ELSE acc
             b == IF i <= Len(external_docs) THEN Append(a, external_docs[i]) ELSE a
         IN  IF Len(b) >= kk THEN b
             ELSE InterleaveFrom(internal_docs, external_docs, kk, i + 1, b)

\* the concatenation without the slice
ConcatUncut(first_docs, second_docs, kk) == first_docs \o second_docs

\* documents = first + second; documents = documents[:k]
ConcatTruncate(first_docs, second_docs, kk) == Take(first_docs \o second_docs, kk)

\* the documents hybrid_search returns for a strategy and the two result lists
Merge(strategy, internal_docs, external_docs, kk) ==
    IF strategy = "internal_only" THEN internal_docs
    ELSE IF strategy = "external_priority"
         THEN ConcatTruncate(external_docs, internal_docs, kk)
    ELSE IF strategy = "hybrid_balanced"
         THEN InterleaveFrom(internal_docs, external_docs, kk, 1, << >>)
    ELSE ConcatTruncate(internal_docs, external_docs, kk)

\* hybrid_search with a failed retriever's exception reaching its own
\* except clause, which returns []
HybridSearchAborting(strategy, int_task, ext_task, kk) ==
    IF int_task.err # "none" \/ ext_task.err # "none" THEN << >>
    ELSE Merge(strategy, int_task.docs, ext_task.docs, kk)

\* what hybrid_search returns once its retriever calls have returned: each
\* retriever has caught its own exceptions and returned a list
HybridSearchReturn(strategy, int_task, ext_task, kk) ==
    Merge(strategy, int_task.docs, ext_task.docs, kk)

\* the sizes hybrid_search asks the retrievers for (0: the retriever is not called)
RagRequest(strategy, kk) ==
    IF strategy = "internal_only" THEN [int |-> kk, ext |-> 0]
    ELSE IF strategy = "external_priority" THEN [int |-> kk \div 2, ext |-> kk \div 2 + 2]
    ELSE IF strategy = "hybrid_balanced" THEN [int |-> kk \div 2, ext |-> kk \div 2]
    ELSE [int |-> kk \div 2 + 2, ext |-> kk \div 2 ]

\* the sizes search_node asks the tools for
AgentRequest(strategy) ==
    IF strategy = "internal_only" THEN [int |-> 5, ext |-> 0]
    ELSE IF strategy = "external_priority" THEN [int |-> 2, ext |-> 3]
    ELSE IF strategy = "hybrid_balanced" THEN [int |-> 3, ext |-> 2]
    ELSE [int |-> 4, ext |-> 1]

\* both retrievers run whatever the strategy
DispatchedBoth(strategy) == [int |-> TRUE, ext |-> TRUE]

\* which retrievers a strategy runs: internal_only calls the internal one alone
Dispatched(strategy) == [int |-> TRUE, ext |-> strategy # "internal_only"]

-----------------------------------------------------------------------------
(* generate_accessible_context: the context as the sequence of its parts *)

SourceTypes == {"internal", "external", "external_summary"}

\* source_type.startswith('external')
StartsWithExternal(t) == t \in {"external", "external_summary"}

NoInfoPart == [kind |-> "no_info", number |-> 0, internal_count |-> 0, external_count |-> 0]

\* the block of the i-th document, by the branch of the if/elif/else it takes
BlockPart(doc, i) ==
    [kind |-> IF doc.source_type = "internal" THEN "internal_block"
              ELSE IF StartsWithExternal(doc.source_type) THEN "external_block"
              ELSE "plain_block",
     number |-> i, internal_count |-> 0, external_count |-> 0]

\* the summary line with the two counters of the loop
SummaryPart(docs) ==
    [kind |-> "summary", number |-> 0,
     internal_count |-> Cardinality({ i \in 1..Len(docs) : docs[i].source_type = "internal" }),
     external_count |-> Cardinality({ i \in 1..Len(docs) :
                                        /\ docs[i].source_type # "internal"
                                        /\ StartsWithExternal(docs[i].source_type) })]

\* the parts joined with the summary after the blocks
SummaryLast(docs) ==
    [i \in 1..Len(docs) |-> BlockPart(docs[i], i)] \o << SummaryPart(docs) >>

\* `return summary + "\n".join(context_parts)`
SummaryFirst(docs) ==
    << SummaryPart(docs) >> \o [i \in 1..Len(docs) |-> BlockPart(docs[i], i)]

generate_accessible_context(docs) ==
    IF docs = << >> THEN << NoInfoPart >> ELSE SummaryFirst(docs)

-----------------------------------------------------------------------------
(* Queries the requests are run on *)

\* "", and a query of white space only
EmptyQuery == << >>
BlankQuery == << SP >>

\* "guk-jeong-gam-sa-e-seo na-on ju-yo i-syu-neun?" (the audit query of the
\* end-to-end scenario; batch_test_mode has it with "mu-eot-in-ga-yo?" added)
AuditQuery ==
    << "guk","jeong","gam","sa","e","seo", SP, "na","on", SP, "ju","yo", SP,
       "i","syu","neun","?" >>

\* main_JH.py, batch_test_mode: "choe-geun hwan-gyeong bal-ui-an 3-gae-man"
RecentBillsQuery ==
    << "choe","geun", SP, "hwan","gyeong", SP, "bal","ui","an", SP, "3","gae","man" >>

\* "jeo-chul-san mun-je"
BirthRateQuery == << "jeo","chul","san", SP, "mun","je" >>

\* "guk-hoe-ui-won choe-geun": assembly keywords together with a recency keyword
MembersQuery == << "guk","hoe","ui","won", SP, "choe","geun" >>

\* "jeong-ui": a general keyword alone
DefinitionQuery == << "jeong","ui" >>

TestQueries ==
    { EmptyQuery, BlankQuery, AuditQuery, RecentBillsQuery, BirthRateQuery,
      MembersQuery, DefinitionQuery }

-----------------------------------------------------------------------------
(* Messages the agent and HybridInternalExternalRAG put in place of an answer *)

MsgNoQuestion       == "no question"                      \* entry_node, no messages
MsgNoValidQuestion  == "no valid question found"          \* entry_node, no HumanMessage
MsgNoQueryStrategy  == "no question, no strategy"         \* strategy_node
MsgSearchIncomplete == "information for search missing"   \* search_node
MsgRagNoInfo        == "sorry, no related information"    \* HybridInternalExternalRAG.ask
MsgRagApology       == "sorry, problem while generating"  \* generate_accessible_answer
LlmAnswer           == "llm answer"                       \* the completion's content
PyNone              == "<None>"                           \* Python's None

\* the exceptions a provider call or a node may raise, by their str(e)
Errors == {"timeout", "rate limit"}

\* the except branch always answering with the same sentence
MsgAnswerErrorFixed(e) == "error while generating answer"

\* answer_node, except: f"... {e}", the sentence with the exception's text
MsgAnswerError(e) ==
    IF e = "timeout" THEN "error while generating answer: timeout"
    ELSE "error while generating answer: rate limit"

\* RAGSystem.ask, except: f"... {e}"
MsgProcessingError(e) ==
    IF e = "timeout" THEN "error while processing: timeout"
    ELSE "error while processing: rate limit"

\* ask_rag_endpoint, except Exception: f"... {str(e)}" (the exception here
\* is the validation error of the response model)
MsgInternalError == "internal error in the RAG system: validation error"

\* `query and query.strip()`
NonBlank(q) == \E i \in 1..Len(q) : q[i] # SP

\* the ceiling of the routing functions
StepCeiling == 10

\* the routing after the entry node without the test of the query
route_after_entry_unchecked(q, steps) ==
    IF steps > StepCeiling THEN "END" ELSE "strategy_node"

route_after_entry(q, steps) ==
    IF steps > StepCeiling THEN "END"
    ELSE IF q # << >> /\ NonBlank(q) THEN "strategy_node"
    ELSE "END"

\* the routing after the strategy node without the test of the ceiling
route_after_strategy_unbounded(strategy, steps) ==
    IF strategy # "" THEN "search_node" ELSE "END"

route_after_strategy(strategy, steps) ==
    IF steps > StepCeiling THEN "END"
    ELSE IF strategy # "" THEN "search_node"
    ELSE "END"

\* a search without documents sent back to the search node for another try
route_to_search_again(internal, external, steps) ==
    IF steps > StepCeiling THEN "END"
    ELSE IF internal # << >> \/ external # << >> THEN "answer_node"
    ELSE "search_node"

\* the test of the result lists left out: every search goes on to the answer
route_to_answer_always(internal, external, steps) ==
    IF steps > StepCeiling THEN "END" ELSE "answer_node"

route_after_search(internal, external, steps) ==
    IF steps > StepCeiling THEN "END"
    ELSE IF internal # << >> \/ external # << >> THEN "answer_node"
    ELSE "END"

-----------------------------------------------------------------------------
(* Spec: one request, through the agent graph or through                   *)
(* HybridInternalExternalRAG.ask                                           *)

\* RAGSystem.ask: initial_state, and the process as constructed
InitAgent ==
    /\ prog = "agent"
    /\ pc = "entry_node"
    /\ \E q \in TestQueries : messages = << [type |-> "human", content |-> q] >>
    /\ query = << >>
    /\ search_strategy = ""
    /\ internal_results = NoDocs
    /\ external_results = NoDocs
    /\ final_answer = ""
    /\ step_count = 0
    /\ documents = NoDocs
    /\ k = 0
    /\ req = [int |-> 0, ext |-> 0]
    /\ branch = [int |-> IdleBranch, ext |-> IdleBranch]
    /\ processed = << >>
    /\ OutIdle

\* HybridInternalExternalRAG.ask(query, k, force_strategy); "" is None
InitHybrid ==
    /\ prog = "hybrid"
    /\ pc = "ask"
    /\ query \in TestQueries
    /\ k \in 1..MaxK
    /\ search_strategy \in Strategies \cup {""}
    /\ messages = << >>
    /\ internal_results = NoDocs
    /\ external_results = NoDocs
    /\ final_answer = ""
    /\ step_count = 0
    /\ documents = NoDocs
    /\ req = [int |-> 0, ext |-> 0]
    /\ branch = [int |-> IdleBranch, ext |-> IdleBranch]
    /\ processed = << >>
    /\ OutIdle

\* SearchAgents.__init__ / HybridInternalExternalRAG.__init__
InitEnv ==
    /\ threads = << >>
    /\ calls = NoCalls
    /\ tavily_client \in BOOLEAN
    /\ embedding_cache = << >>
    /\ cache_log = NoLog

Init == (InitAgent \/ InitHybrid) /\ InitEnv

\* the tasks started for a strategy
Started(strategy) ==
    [int |-> [st |-> "pending", docs |-> NoDocs, err |-> "none"],
     ext |-> IF Dispatched(strategy).ext
             THEN [st |-> "pending", docs |-> NoDocs, err |-> "none"]
             ELSE IdleBranch]

\* the results taken as soon as one of the tasks is done
OneBranchDone ==
    \/ branch.int.st \in {"idle", "done"}
    \/ branch.ext.st \in {"idle", "done"}

\* both future.result() calls have returned
BranchesDone ==
    /\ branch.int.st \in {"idle", "done"}
    /\ branch.ext.st \in {"idle", "done"}

entry_node ==
    /\ prog = "agent" /\ pc = "entry_node"
    /\ calls' = [calls EXCEPT !.ran = Append(@, "entry_node")]
    /\ step_count' = step_count + 1
    /\ IF messages = << >>
       THEN /\ final_answer' = MsgNoQuestion
            /\ query' = query
       ELSE IF messages[Len(messages)].type = "human"
       THEN /\ query' = messages[Len(messages)].content
            /\ final_answer' = final_answer
       ELSE /\ final_answer' = MsgNoValidQuestion
            /\ query' = query
    /\ pc' = route_after_entry(query', step_count')
    /\ UNCHANGED << prog, outVars, messages, search_strategy, internal_results, external_results,
                    documents, k, req, branch, processed, cacheVars >>

strategy_node ==
    /\ prog = "agent" /\ pc = "strategy_node"
    /\ calls' = [calls EXCEPT !.ran = Append(@, "strategy_node")]
    /\ step_count' = step_count + 1
    /\ IF query = << >>
       THEN /\ final_answer' = MsgNoQueryStrategy
            /\ search_strategy' = search_strategy
       ELSE /\ search_strategy' = strategy_analyzer_tool(query)
            /\ final_answer' = final_answer
    /\ pc' = route_after_strategy(search_strategy', step_count')
    /\ UNCHANGED << prog, outVars, query, messages, internal_results, external_results,
                    documents, k, req, branch, processed, cacheVars >>

\* search_node up to the calls of the tools (submitted to the pool of two
\* workers, or made in place under internal_only)
search_node_start ==
    /\ prog = "agent" /\ pc = "search_node"
    /\ calls' = [calls EXCEPT !.ran = Append(@, "search_node")]
    /\ IF query = << >> \/ search_strategy = ""
       THEN /\ final_answer' = MsgSearchIncomplete
            /\ step_count' = step_count + 1
            /\ pc' = route_after_search(internal_results, external_results, step_count')
            /\ UNCHANGED << req, branch >>
       ELSE /\ req' = AgentRequest(search_strategy)
            /\ branch' = Started(search_strategy)
            /\ pc' = "search_wait"
            /\ UNCHANGED << final_answer, step_count >>
    /\ UNCHANGED << prog, outVars, query, messages, search_strategy, internal_results,
                    external_results, documents, k, processed, cacheVars >>

\* search_node from the results of the futures to its return
search_node_finish ==
    /\ prog = "agent" /\ pc = "search_wait"
    /\ BranchesDone
    /\ internal_results' = branch.int.docs
    /\ external_results' = branch.ext.docs
    /\ step_count' = step_count + 1
    /\ pc' = route_after_search(internal_results', external_results', step_count')
    /\ UNCHANGED << prog, outVars, query, messages, search_strategy, documents, final_answer,
                    k, req, branch, processed, envVars >>

\* answer_node's context: a block for each internal result, then a block
\* for each external result, numbered on from the internal ones
AnswerContextDocs(internal, external) == internal \o external

\* answer_node with the except branch returning the state without counting
answer_node_uncounted_error ==
    /\ prog = "agent" /\ pc = "answer_node"
    /\ \/ /\ \E content \in {LlmAnswer, PyNone} : final_answer' = content
          /\ calls' = [calls EXCEPT !.chat = @ + 1, !.ran = Append(@, "answer_node")]
          /\ step_count' = step_count + 1
       \/ \E e \in Errors :
             /\ final_answer' = MsgAnswerError(e)
             /\ calls' = [calls EXCEPT !.chat = @ + 1, !.ran = Append(@, "answer_node"),
                                       !.chat_error = e]
             /\ step_count' = step_count
    /\ documents' = AnswerContextDocs(internal_results, external_results)
    /\ pc' = "END"
    /\ UNCHANGED << prog, outVars, query, messages, search_strategy, internal_results,
                    external_results, k, req, branch, processed, cacheVars >>

\* answer_node: the context, the completion or the except branch
answer_node ==
    /\ prog = "agent" /\ pc = "answer_node"
    /\ \/ /\ \E content \in {LlmAnswer, PyNone} : final_answer' = content
          /\ calls' = [calls EXCEPT !.chat = @ + 1, !.ran = Append(@, "answer_node")]
       \/ \E e \in Errors :
             /\ final_answer' = MsgAnswerError(e)
             /\ calls' = [calls EXCEPT !.chat = @ + 1, !.ran = Append(@, "answer_node"),
                                       !.chat_error = e]
    /\ step_count' = step_count + 1
    /\ documents' = AnswerContextDocs(internal_results, external_results)
    /\ pc' = "END"
    /\ UNCHANGED << prog, outVars, query, messages, search_strategy, internal_results,
                    external_results, k, req, branch, processed, cacheVars >>

-----------------------------------------------------------------------------
(* RAGSystem.ask around graph.invoke, and ask_rag_endpoint around it *)

\* the keys of the dict ask returns from its try block, and from its except
ResultKeys == {"query", "answer", "search_strategy", "internal_count", "external_count",
               "processing_time", "step_count", "internal_results", "external_results"}

ErrorKeys == {"query", "answer", "error"}

\* the nodes of the graph
Nodes == {"entry_node", "strategy_node", "search_node", "answer_node"}

\* the exception leaving ask instead of being turned into a result
AskReraises(e) ==
    [st |-> "raised", error |-> FALSE, answer |-> "", search_strategy |-> "",
     internal_count |-> 0, external_count |-> 0, step_count |-> 0, keys |-> {}]

\* ask's except branch: the dict with the message and error = True
AskOnException(e) ==
    [st |-> "returned", error |-> TRUE, answer |-> MsgProcessingError(e),
     search_strategy |-> "", internal_count |-> 0, external_count |-> 0,
     step_count |-> 0, keys |-> ErrorKeys]

\* ask's try block after graph.invoke: the dict built from the final state
AskResult ==
    [st |-> "returned", error |-> FALSE, answer |-> final_answer,
     search_strategy |-> search_strategy,
     internal_count |-> Len(internal_results), external_count |-> Len(external_results),
     step_count |-> step_count, keys |-> ResultKeys]

\* ask_rag_endpoint: HTTPException(500) for an error result, RAGResponse
\* (whose answer must be a str) otherwise, and HTTPException(500) for any
\* other exception, that of the response model's validation included
EndpointResponse(r) ==
    IF r.st = "raised" THEN [status |-> 500, detail |-> MsgInternalError]
    ELSE IF r.error THEN [status |-> 500, detail |-> r.answer]
    ELSE IF r.answer = PyNone THEN [status |-> 500, detail |-> MsgInternalError]
    ELSE [status |-> 200, detail |-> ""]

\* graph.invoke returned the final state
rag_system_ask_return ==
    /\ prog = "agent" /\ pc = "END"
    /\ result.st = "none"
    /\ result' = AskResult
    /\ UNCHANGED << prog, pc, query, search_strategy, processed, messages,
                    internal_results, external_results, documents, final_answer,
                    step_count, k, req, branch, context, response, envVars >>

\* graph.invoke raised: an exception that no node caught
rag_system_ask_except ==
    /\ prog = "agent" /\ pc \in Nodes
    /\ result.st = "none"
    /\ \E e \in Errors : result' = AskOnException(e)
    /\ pc' = "raised"
    /\ UNCHANGED << prog, query, search_strategy, processed, messages,
                    internal_results, external_results, documents, final_answer,
                    step_count, k, req, branch, context, response, envVars >>

\* ask_rag_endpoint from the return of run_in_executor to its response
ask_rag_endpoint ==
    /\ prog = "agent"
    /\ result.st # "none"
    /\ response = NoResponse
    /\ response' = EndpointResponse(result)
    /\ UNCHANGED << prog, pc, query, search_strategy, processed, messages,
                    internal_results, external_results, documents, final_answer,
                    step_count, k, req, branch, context, result, envVars >>

-----------------------------------------------------------------------------
(* The retrievers (internal_search_tool / internal_search and               *)
(* external_search_tool / external_search), run as the tasks of a request   *)

Preprocess(q) ==
    IF prog = "agent" THEN preprocess_query_for_context(q)
    ELSE rag_preprocess_query_for_context(q)

\* internal search, first part: the preprocessor and _get_cached_embedding;
\* an exception of the embedding provider ends the search with []
internal_search_embed ==
    /\ prog \in {"agent", "hybrid"}
    /\ branch.int.st = "pending"
    /\ processed' = Preprocess(query)
    /\ \E r \in GetCachedEmbedding(embedding_cache, processed') :
          /\ embedding_cache' = r.cache
          /\ calls' = [calls EXCEPT !.internal = @ + 1, !.embed = @ + r.provider_calls,
                                    !.finished = IF r.outcome = "miss_fail"
                                                 THEN Append(@, "int") ELSE @]
          /\ branch' = IF r.outcome = "miss_fail"
                       THEN [branch EXCEPT !.int = [st |-> "done", docs |-> NoDocs,
                                                    err |-> "provider_error"]]
                       ELSE [branch EXCEPT !.int.st = "embedded"]
    /\ UNCHANGED << prog, outVars, pc, query, search_strategy, messages, internal_results,
                    external_results, documents, final_answer, step_count, k, req,
                    tavily_client, cache_log, threads >>

\* internal search, second part: the vector query and the documents built
\* from its hits; an exception of the index ends the search with []
internal_search_index ==
    /\ prog \in {"agent", "hybrid"}
    /\ branch.int.st = "embedded"
    /\ calls' = [calls EXCEPT !.index = @ + 1, !.finished = Append(@, "int")]
    /\ \/ \E n \in 0..MaxDocs :
            branch' = [branch EXCEPT !.int = [st |-> "done", docs |-> InternalList(n),
                                              err |-> "none"]]
       \/ branch' = [branch EXCEPT !.int = [st |-> "done", docs |-> NoDocs,
                                            err |-> "provider_error"]]
    /\ UNCHANGED << prog, pc, query, search_strategy, processed, reqVars_but_branch,
                    cacheVars >>

\* external search: [] without a client, else one search call and the
\* documents built from its response, or [] when the call raises
external_search ==
    /\ prog \in {"agent", "hybrid"}
    /\ branch.ext.st = "pending"
    /\ IF ~tavily_client
       THEN /\ calls' = [calls EXCEPT !.external = @ + 1, !.finished = Append(@, "ext")]
            /\ branch' = [branch EXCEPT !.ext = [st |-> "done", docs |-> NoDocs,
                                                 err |-> "not_configured"]]
       ELSE \/ \E answer \in BOOLEAN, n \in 0..MaxDocs :
                  /\ calls' = [calls EXCEPT !.external = @ + 1, !.tavily = @ + 1,
                                            !.finished = Append(@, "ext"),
                                            !.tavily_answer = IF answer THEN "yes" ELSE "no",
                                            !.tavily_results = n]
                  /\ branch' = [branch EXCEPT !.ext = [st |-> "done",
                                                       docs |-> ExternalList(answer, n),
                                                       err |-> "none"]]
            \/ /\ calls' = [calls EXCEPT !.external = @ + 1, !.tavily = @ + 1,
                                         !.finished = Append(@, "ext")]
               /\ branch' = [branch EXCEPT !.ext = [st |-> "done", docs |-> NoDocs,
                                                    err |-> "provider_error"]]
    /\ UNCHANGED << prog, pc, query, search_strategy, processed, reqVars_but_branch,
                    cacheVars >>

-----------------------------------------------------------------------------
(* HybridInternalExternalRAG.ask *)

\* ask up to the retriever calls of hybrid_search: the strategy (forced or
\* determined from the query) and the tasks it starts
rag_ask_start ==
    /\ prog = "hybrid" /\ pc = "ask"
    /\ search_strategy' = IF search_strategy # "" THEN search_strategy
                          ELSE determine_search_strategy(query)
    /\ req' = RagRequest(search_strategy', k)
    /\ branch' = Started(search_strategy')
    /\ pc' = "hybrid_wait"
    /\ UNCHANGED << prog, outVars, query, messages, internal_results, external_results,
                    documents, final_answer, step_count, k, processed, envVars >>

\* hybrid_search from the results of the futures to its return, and ask's
\* test of the documents
rag_hybrid_search_return ==
    /\ prog = "hybrid" /\ pc = "hybrid_wait"
    /\ BranchesDone
    /\ internal_results' = branch.int.docs
    /\ external_results' = branch.ext.docs
    /\ documents' = HybridSearchReturn(search_strategy, branch.int, branch.ext, k)
    /\ IF documents' = << >>
       THEN /\ final_answer' = MsgRagNoInfo
            /\ pc' = "returned"
       ELSE /\ final_answer' = final_answer
            /\ pc' = "generate"
    /\ UNCHANGED << prog, outVars, query, messages, search_strategy, step_count, k, req,
                    branch, processed, envVars >>

\* generate_accessible_context and generate_accessible_answer: the
\* completion, or the apology when the call raises
rag_generate ==
    /\ prog = "hybrid" /\ pc = "generate"
    /\ context' = generate_accessible_context(documents)
    /\ \/ /\ \E content \in {LlmAnswer, PyNone} : final_answer' = content
          /\ calls' = [calls EXCEPT !.chat = @ + 1]
       \/ \E e \in Errors :
             /\ final_answer' = MsgRagApology
             /\ calls' = [calls EXCEPT !.chat = @ + 1, !.chat_error = e]
    /\ pc' = "returned"
    /\ UNCHANGED << prog, result, response, query, messages, search_strategy, internal_results,
                    external_results, documents, step_count, k, req, branch,
                    processed, cacheVars >>

Next ==
    \/ entry_node
    \/ strategy_node
    \/ search_node_start
    \/ search_node_finish
    \/ answer_node
    \/ rag_system_ask_return
    \/ rag_system_ask_except
    \/ ask_rag_endpoint
    \/ internal_search_embed
    \/ internal_search_index
    \/ external_search
    \/ rag_ask_start
    \/ rag_hybrid_search_return
    \/ rag_generate

Spec == Init /\ [][Next]_vars

\* the same, with every call of a node or of a provider returning or failing
SpecLive == Init /\ [][Next]_vars /\ WF_vars(Next)

-----------------------------------------------------------------------------
(* SpecCache: _get_cached_embedding called again and again, one call at a   *)
(* time, on the cache of one SearchAgents / HybridInternalExternalRAG       *)

\* most calls of the embedding provider in one behaviour
MaxEmbedCalls == 4

\* the texts asked for: preprocessed queries, two more than the cache holds
TextPool ==
    << preprocess_query_for_context(AuditQuery),
       preprocess_query_for_context(BirthRateQuery),
       preprocess_query_for_context(RecentBillsQuery),
       preprocess_query_for_context(MembersQuery),
       preprocess_query_for_context(DefinitionQuery),
       preprocess_query_for_context(BlankQuery) >>

CacheTexts == { TextPool[i] : i \in 1..Min(Len(TextPool), max_cache_size + 2) }

InitCache ==
    /\ prog = "cache"
    /\ pc = "idle"
    /\ query = << >>
    /\ search_strategy = ""
    /\ processed = << >>
    /\ ReqIdle
    /\ EnvIdle

\* one call self._get_cached_embedding(text), from its first line to its
\* return or to the exception leaving it
get_cached_embedding ==
    /\ prog = "cache"
    /\ \E text \in CacheTexts :
       \E r \in GetCachedEmbedding(embedding_cache, text) :
          /\ calls.embed + r.provider_calls <= MaxEmbedCalls
          /\ embedding_cache' = r.cache
          /\ calls' = [calls EXCEPT !.embed = @ + r.provider_calls]
          /\ cache_log' =
               [last   |-> [text |-> text, outcome |-> r.outcome, vector |-> r.vector,
                            provider_calls |-> r.provider_calls,
                            before |-> embedding_cache],
                prev   |-> [text |-> cache_log.last.text,
                            outcome |-> cache_log.last.outcome],
                served |-> IF r.outcome = "miss_fail" THEN cache_log.served
                           ELSE cache_log.served \cup {text},
                born   |-> IF r.outcome # "miss_ok" THEN cache_log.born
                           ELSE { b \in cache_log.born : b.key # text }
                                \cup {[key |-> text, at |-> calls.embed + 1]}]
    /\ UNCHANGED << prog, pc, query, search_strategy, processed, reqVars, tavily_client,
                    threads >>

NextCache == get_cached_embedding

SpecCache == InitCache /\ [][NextCache]_vars

-----------------------------------------------------------------------------
(* SpecConc: _get_cached_embedding called by the worker threads of the      *)
(* service at the same time, on the one cache of search_agents.  A step of  *)
(* a thread is one operation on the dict, atomic under the interpreter's    *)
(* lock; between any two of them the other threads may run.                 *)

\* worker threads inside internal_search_tool at the same time
NumThreads == 2

\* most calls of internal_search_tool in one behaviour
MaxConcCalls == 4

ThreadIds == 1..NumThreads

ConcTexts == { TextPool[i] : i \in 1..Min(Len(TextPool), max_cache_size + 1) }

IdleThread == [pc |-> "idle", text |-> << >>, oldest_key |-> << >>, iter_used |-> 0,
               vector |-> "none", outcome |-> "none"]

\* the exceptions of the dict operations
DictErrors == {"KeyError", "RuntimeError", "StopIteration"}

InitConc ==
    /\ prog = "service"
    /\ pc = "serving"
    /\ query = << >>
    /\ search_strategy = ""
    /\ processed = << >>
    /\ ReqIdle
    /\ calls = NoCalls
    /\ tavily_client = FALSE
    /\ embedding_cache = << >>
    /\ cache_log = NoLog
    /\ threads = [t \in ThreadIds |-> IdleThread]

\* the variables no step of a thread changes
ConcFrame == << prog, pc, query, search_strategy, processed, reqVars, tavily_client,
                cache_log >>

\* the call leaves _get_cached_embedding with an exception
Raise(t, e) == [threads EXCEPT ![t].pc = "idle", ![t].outcome = e]

\* a request's internal_search_tool calls _get_cached_embedding(text)
emb_call ==
    \E t \in ThreadIds, text \in ConcTexts :
        /\ prog = "service" /\ threads[t].pc = "idle"
        /\ calls.internal < MaxConcCalls
        /\ threads' = [threads EXCEPT ![t] = [IdleThread EXCEPT !.pc = "test_hit",
                                                                !.text = text]]
        /\ calls' = [calls EXCEPT !.internal = @ + 1]
        /\ UNCHANGED << embedding_cache, ConcFrame >>

\* `if text in self.embedding_cache:`
emb_test_hit ==
    \E t \in ThreadIds :
        /\ prog = "service" /\ threads[t].pc = "test_hit"
        /\ threads' = [threads EXCEPT ![t].pc =
                          IF threads[t].text \in CacheKeys(embedding_cache)
                          THEN "read_hit" ELSE "test_size"]
        /\ UNCHANGED << calls, embedding_cache, ConcFrame >>

\* `return self.embedding_cache[text]`
emb_read_hit ==
    \E t \in ThreadIds :
        /\ prog = "service" /\ threads[t].pc = "read_hit"
        /\ threads' = IF threads[t].text \in CacheKeys(embedding_cache)
                       THEN [threads EXCEPT ![t].pc = "idle", ![t].outcome = "hit",
                                            ![t].vector =
                                                CacheValue(embedding_cache, threads[t].text)]
                       ELSE Raise(t, "KeyError")
        /\ UNCHANGED << calls, embedding_cache, ConcFrame >>

\* `if len(self.embedding_cache) >= self.max_cache_size:`
emb_test_size ==
    \E t \in ThreadIds :
        /\ prog = "service" /\ threads[t].pc = "test_size"
        /\ threads' = [threads EXCEPT ![t].pc =
                          IF Len(embedding_cache) >= max_cache_size
                          THEN "iter" ELSE "provider"]
        /\ UNCHANGED << calls, embedding_cache, ConcFrame >>

\* `iter(self.embedding_cache)`: the iterator remembers the dict's size
emb_iter ==
    \E t \in ThreadIds :
        /\ prog = "service" /\ threads[t].pc = "iter"
        /\ threads' = [threads EXCEPT ![t].pc = "next",
                                       ![t].iter_used = Len(embedding_cache)]
        /\ UNCHANGED << calls, embedding_cache, ConcFrame >>

\* `oldest_key = next(...)`: the first key, or RuntimeError when the dict
\* changed size since iter(), or StopIteration when it is empty
emb_next ==
    \E t \in ThreadIds :
        /\ prog = "service" /\ threads[t].pc = "next"
        /\ threads' = IF Len(embedding_cache) # threads[t].iter_used
                       THEN Raise(t, "RuntimeError")
                       ELSE IF embedding_cache = << >> THEN Raise(t, "StopIteration")
                       ELSE [threads EXCEPT ![t].pc = "del",
                                            ![t].oldest_key = embedding_cache[1].key]
        /\ UNCHANGED << calls, embedding_cache, ConcFrame >>

\* `del self.embedding_cache[oldest_key]`
emb_del ==
    \E t \in ThreadIds :
        /\ prog = "service" /\ threads[t].pc = "del"
        /\ IF threads[t].oldest_key \in CacheKeys(embedding_cache)
           THEN /\ embedding_cache' =
                      SelectSeq(embedding_cache,
                                LAMBDA item : item.key # threads[t].oldest_key)
                /\ threads' = [threads EXCEPT ![t].pc = "provider"]
           ELSE /\ embedding_cache' = embedding_cache
                /\ threads' = Raise(t, "KeyError")
        /\ UNCHANGED << calls, ConcFrame >>

\* `self.openai_client.embeddings.create(...)`: a vector, or an exception
emb_provider ==
    \E t \in ThreadIds :
        /\ prog = "service" /\ threads[t].pc = "provider"
        /\ calls' = [calls EXCEPT !.embed = @ + 1]
        /\ \/ \E v \in Vectors :
                threads' = [threads EXCEPT ![t].pc = "store", ![t].vector = v]
           \/ threads' = Raise(t, "provider_error")
        /\ UNCHANGED << embedding_cache, ConcFrame >>

\* `self.embedding_cache[text] = embedding; return embedding`
emb_store ==
    \E t \in ThreadIds :
        /\ prog = "service" /\ threads[t].pc = "store"
        /\ embedding_cache' = Store(embedding_cache, threads[t].text, threads[t].vector)
        /\ threads' = [threads EXCEPT ![t].pc = "idle", ![t].outcome = "miss_ok"]
        /\ UNCHANGED << calls, ConcFrame >>

NextConc ==
    \/ emb_call
    \/ emb_test_hit
    \/ emb_read_hit
    \/ emb_test_size
    \/ emb_iter
    \/ emb_next
    \/ emb_del
    \/ emb_provider
    \/ emb_store

SpecConc == InitConc /\ [][NextConc]_vars

-----------------------------------------------------------------------------
(* SpecRender: generate_accessible_context applied to lists of documents *)

\* longest list of documents rendered
MaxRenderDocs == 3

\* the source types of the retrievers, and one that neither of them sets
RenderTypes == SourceTypes \cup {"unknown"}

RenderInputs ==
    UNION { [1..n -> { [source_type |-> t, rank |-> 0, score |-> ProviderScore] :
                         t \in RenderTypes }] : n \in 0..MaxRenderDocs }

InitRender ==
    /\ prog = "render"
    /\ pc = "input"
    /\ query = << >>
    /\ search_strategy = ""
    /\ processed = << >>
    /\ messages = << >>
    /\ internal_results = NoDocs
    /\ external_results = NoDocs
    /\ documents \in RenderInputs
    /\ final_answer = ""
    /\ step_count = 0
    /\ k = 0
    /\ req = [int |-> 0, ext |-> 0]
    /\ branch = [int |-> IdleBranch, ext |-> IdleBranch]
    /\ OutIdle
    /\ EnvIdle

\* self.generate_accessible_context(documents)
ApplyRender ==
    /\ prog = "render" /\ pc = "input"
    /\ context' = generate_accessible_context(documents)
    /\ pc' = "rendered"
    /\ UNCHANGED << prog, query, search_strategy, processed, messages, internal_results,
                    external_results, documents, final_answer, step_count, k, req,
                    branch, result, response, envVars >>

NextRender == ApplyRender

SpecRender == InitRender /\ [][NextRender]_vars

-----------------------------------------------------------------------------
(* SpecRoute: the three routing functions applied to agent states *)

\* largest step_count of the states the routing functions are applied to
MaxRouteSteps == 12

RouteQueries == {EmptyQuery, BlankQuery, DefinitionQuery}

RouteLists == {NoDocs, InternalList(1)}

InitRoute ==
    /\ prog = "route"
    /\ pc = "input"
    /\ query \in RouteQueries
    /\ search_strategy \in {"", "hybrid_balanced"}
    /\ internal_results \in RouteLists
    /\ external_results \in {NoDocs, ExternalList(TRUE, 0)}
    /\ step_count \in 0..MaxRouteSteps
    /\ processed = << >>
    /\ messages = << >>
    /\ documents = NoDocs
    /\ final_answer = ""
    /\ k = 0
    /\ req = [int |-> 0, ext |-> 0]
    /\ branch = [int |-> IdleBranch, ext |-> IdleBranch]
    /\ OutIdle
    /\ EnvIdle

\* route_after_entry(state)
ApplyRouteAfterEntry ==
    /\ prog = "route" /\ pc = "input"
    /\ prog' = "route_after_entry"
    /\ pc' = route_after_entry(query, step_count)
    /\ UNCHANGED << query, search_strategy, processed, reqVars, envVars >>

\* route_after_strategy(state)
ApplyRouteAfterStrategy ==
    /\ prog = "route" /\ pc = "input"
    /\ prog' = "route_after_strategy"
    /\ pc' = route_after_strategy(search_strategy, step_count)
    /\ UNCHANGED << query, search_strategy, processed, reqVars, envVars >>

\* route_after_search(state)
ApplyRouteAfterSearch ==
    /\ prog = "route" /\ pc = "input"
    /\ prog' = "route_after_search"
    /\ pc' = route_after_search(internal_results, external_results, step_count)
    /\ UNCHANGED << query, search_strategy, processed, reqVars, envVars >>

NextRoute ==
    \/ ApplyRouteAfterEntry
    \/ ApplyRouteAfterStrategy
    \/ ApplyRouteAfterSearch

SpecRoute == InitRoute /\ [][NextRoute]_vars

-----------------------------------------------------------------------------
(* Properties of the strategy analysers and of the preprocessor (SpecQuery) *)

\* the keywords of a list that occur in a text, by their positions in the list
Matched(keywords, text) == { i \in 1..Len(keywords) : InStr(keywords[i], text) }

AssemblyListAt(p) == IF p = "classified" THEN assembly_keywords ELSE rag_assembly_keywords

AssemblyCount == Cardinality(Matched(AssemblyListAt(pc), Lower(query)))
CurrentCount  == Cardinality(Matched(current_keywords, Lower(query)))
GeneralCount  == Cardinality(Matched(general_keywords, Lower(query)))

\* C1: the analyser returns internal_only when at least 2 assembly keywords
\* match, else external_priority when a recency keyword matches, else
\* hybrid_balanced when a general keyword matches, else
\* hybrid_internal_priority; every query gets exactly one of the four.
C1_ClassifyPriority ==
    pc \in {"classified", "classified_rag"} =>
        /\ search_strategy \in Strategies
        /\ (search_strategy = "internal_only") <=> (AssemblyCount >= 2)
        /\ (search_strategy = "external_priority") <=>
               (AssemblyCount < 2 /\ CurrentCount >= 1)
        /\ (search_strategy = "hybrid_balanced") <=>
               (AssemblyCount < 2 /\ CurrentCount = 0 /\ GeneralCount >= 1)
        /\ (search_strategy = "hybrid_internal_priority") <=>
               (AssemblyCount < 2 /\ CurrentCount = 0 /\ GeneralCount = 0)

\* a query with two assembly keywords and a recency keyword was classified
C1_Witness ==
    /\ pc = "classified"
    /\ AssemblyCount >= 2
    /\ CurrentCount >= 1
    /\ search_strategy = "internal_only"

TableAt(p) == IF p = "expanded" THEN query_corrections ELSE rag_query_corrections

MatchingKeys == { i \in 1..Len(TableAt(pc)) : InStr(TableAt(pc)[i].key, query) }

FirstMatchingKey == CHOOSE i \in MatchingKeys : \A j \in MatchingKeys : i <= j

\* C9: the preprocessor returns the query unchanged when no key occurs in
\* it, and otherwise the query, one space and the expansion of the first
\* key (in table order) that occurs in it, and nothing more.
C9_ExpandFirstKeyOnly ==
    pc \in {"expanded", "expanded_rag"} =>
        /\ SubSeq(processed, 1, Len(query)) = query
        /\ IF MatchingKeys = {}
           THEN processed = query
           ELSE /\ processed[Len(query) + 1] = SP
                /\ SubSeq(processed, Len(query) + 2, Len(processed))
                       = TableAt(pc)[FirstMatchingKey].expansion

\* a query in which several keys occur was expanded
C9_Witness ==
    /\ pc = "expanded"
    /\ Cardinality(MatchingKeys) >= 2
    /\ processed # query

-----------------------------------------------------------------------------
(* Properties of one request (Spec) *)

Asked == IF prog = "agent" /\ messages # << >> THEN messages[1].content ELSE query

AfterHybridSearch == prog = "hybrid" /\ pc \in {"generate", "returned"}
AfterAgentSearch  == prog = "agent" /\ pc \in {"answer_node", "END"} /\ branch.int.st = "done"

\* C2: for the audit query the agent scores at least 2 assembly keywords
\* and chooses internal_only, never calls the external retriever, keeps only
\* internal documents, and calls the answer generator exactly once.
C2_AuditQueryInternalOnly ==
    (prog = "agent" /\ Asked = AuditQuery) =>
        /\ pc \in {"search_node", "search_wait", "answer_node", "END"}
              => /\ Score(assembly_keywords, Lower(query)) >= 2
                 /\ search_strategy = "internal_only"
        /\ calls.external = 0
        /\ pc = "END" /\ internal_results # << >>
              => /\ external_results = << >>
                 /\ calls.chat = 1

\* the result of interleaving two whole lists: pairs while both have an
\* item, then the rest of the longer one
FullInterleave(a, b) ==
    LET m == Min(Len(a), Len(b)) IN
    [i \in 1..(Len(a) + Len(b)) |->
        IF i <= 2 * m
        THEN (IF i % 2 = 1 THEN a[(i + 1) \div 2] ELSE b[i \div 2])
        ELSE (IF Len(a) > m THEN a[i - m] ELSE b[i - m])]

\* C3: under hybrid_balanced the result is internal[1], external[1],
\* internal[2], external[2], ..., then the rest of the longer list, cut when
\* k items are collected.
C3_InterleaveUntilK ==
    (AfterHybridSearch /\ search_strategy = "hybrid_balanced") =>
        documents = Take(FullInterleave(internal_results, external_results), k)

\* C4: external_priority asks the external retriever for k/2+2 and the
\* internal one for k/2 and returns the first k of external then internal;
\* hybrid_internal_priority does the same with the roles exchanged.
C4_PriorityConcat ==
    (prog = "hybrid" /\ pc \in {"hybrid_wait", "generate", "returned"}
       /\ search_strategy \in {"external_priority", "hybrid_internal_priority"}) =>
        LET ext_first == search_strategy = "external_priority"
            head == IF ext_first THEN external_results ELSE internal_results
            rest == IF ext_first THEN internal_results ELSE external_results
        IN  /\ req = IF ext_first THEN [ext |-> (k \div 2) + 2, int |-> k \div 2]
                     ELSE [int |-> (k \div 2) + 2, ext |-> k \div 2]
            /\ pc # "hybrid_wait" =>
                 /\ Len(documents) = Min(k, Len(head) + Len(rest))
                 /\ \A i \in 1..Len(documents) :
                       documents[i] = IF i <= Len(head) THEN head[i]
                                      ELSE rest[i - Len(head)]

\* a priority merge that had to cut documents of both sources down to k
C4_Witness ==
    /\ AfterHybridSearch
    /\ search_strategy = "external_priority"
    /\ external_results # << >>
    /\ Len(external_results) < k
    /\ Len(external_results) + Len(internal_results) > k

\* C5: under internal_only the external retriever is never called and the
\* result is the internal retriever's list as returned, in hybrid_search and
\* in the agent's search node.
C5_InternalOnlyNoExternal ==
    search_strategy = "internal_only" =>
        /\ calls.external = 0
        /\ calls.tavily = 0
        /\ branch.ext.st = "idle"
        /\ AfterHybridSearch =>
              /\ documents = branch.int.docs
              /\ \A i \in 1..Len(documents) : documents[i].source_type = "internal"
        /\ AfterAgentSearch =>
              /\ internal_results = branch.int.docs
              /\ external_results = << >>

\* the agent ended an internal_only search that found documents, with the
\* external client configured
C5_Witness ==
    /\ prog = "agent" /\ pc = "END"
    /\ search_strategy = "internal_only"
    /\ tavily_client
    /\ Len(internal_results) >= 2
    /\ calls.internal = 1

Failed(task) == task.err # "none"

\* C6: a retriever whose provider call fails, or the external one without a
\* credential (then with no provider call), yields []; under a hybrid
\* strategy hybrid_search still returns the other retriever's documents (the
\* first k of them), so the query neither fails nor comes back empty while
\* the other source has documents.
C6_OneSourceDown ==
    /\ \A t \in {"int", "ext"} : Failed(branch[t]) => branch[t].docs = << >>
    /\ branch.ext.err = "not_configured" => calls.tavily = 0
    /\ (AfterHybridSearch /\ search_strategy # "internal_only") =>
        /\ Failed(branch.ext) =>
              /\ documents = Take(branch.int.docs, k)
              /\ branch.int.docs # << >> => final_answer # MsgRagNoInfo
        /\ Failed(branch.int) =>
              /\ documents = Take(branch.ext.docs, k)
              /\ branch.ext.docs # << >> => final_answer # MsgRagNoInfo

\* the external provider failed under a hybrid strategy and the internal
\* documents went on to answer generation
C6_Witness ==
    /\ prog = "hybrid" /\ pc = "generate"
    /\ search_strategy = "hybrid_balanced"
    /\ branch.ext.err = "provider_error"
    /\ calls.tavily = 1
    /\ Len(branch.int.docs) >= 2

\* C10: run on the empty query string the agent ends with the "no query"
\* diagnostic in place of the answer and step_count = 1.
C10_EmptyQueryDiagnostic ==
    (prog = "agent" /\ pc = "END" /\ Asked = EmptyQuery) =>
        /\ final_answer \in {MsgNoQuestion, MsgNoValidQuestion, MsgNoQueryStrategy}
        /\ step_count = 1

BothEmpty == internal_results = << >> /\ external_results = << >>

\* C11: when both retrievers came back with empty lists the request ends
\* right after the search (the agent routes to END, ask returns its "no
\* information" reply) and the chat completion is never called for it.
C11_NoResultsNoAnswer ==
    /\ (AfterAgentSearch /\ BothEmpty) =>
          /\ pc = "END"
          /\ step_count = 3
          /\ calls.chat = 0
    /\ (AfterHybridSearch /\ BothEmpty) =>
          /\ pc = "returned"
          /\ final_answer = MsgRagNoInfo
          /\ calls.chat = 0

\* the agent ran both retrievers, the providers answered without an error
\* and without a document, and the graph ended
C11_Witness ==
    /\ prog = "agent" /\ pc = "END"
    /\ branch.int.st = "done" /\ branch.ext.st = "done"
    /\ ~Failed(branch.int) /\ ~Failed(branch.ext)
    /\ BothEmpty
    /\ calls.tavily = 1 /\ calls.index = 1

\* C12: whenever the agent's run ends, the result RAGSystem.ask returns
\* carries a non-empty answer (the final answer or a diagnostic in its
\* place) together with the strategy, both result counts and the step count.
C12_TerminalResultComplete ==
    (prog = "agent" /\ result.st = "returned" /\ ~result.error) =>
        /\ result.answer \notin {"", PyNone}
        /\ {"answer", "search_strategy", "internal_count", "external_count", "step_count"}
              \subseteq result.keys
        /\ result.search_strategy = search_strategy
        /\ result.internal_count = Len(internal_results)
        /\ result.external_count = Len(external_results)
        /\ result.step_count = step_count

\* the reply that stands for a failed chat completion, whatever the failure
FixedFallback == IF prog = "agent" THEN MsgAnswerErrorFixed("") ELSE MsgRagApology

\* C13: when the chat completion fails the request still ends, and its
\* answer is one fixed fallback sentence, the same for every failure.
C13_FixedFallbackOnChatError ==
    calls.chat_error # "none" =>
        /\ pc \in {"END", "returned"}
        /\ final_answer = FixedFallback

\* C15: RAGSystem.ask never raises: an exception of the graph's run becomes
\* a result with error = True and a message; the endpoint answers 500 for
\* an error result and for any exception of its own, 200 otherwise.
C15_NoFaultEscapes ==
    /\ result.st # "raised"
    /\ pc = "raised" =>
          /\ result.st = "returned"
          /\ result.error
          /\ \E e \in Errors : result.answer = MsgProcessingError(e)
    /\ result.error => pc = "raised"
    /\ response # NoResponse =>
          /\ response.status \in {200, 500}
          /\ result.error => response = [status |-> 500, detail |-> result.answer]
          /\ response.status = 200 => (~result.error /\ result.answer # PyNone)

\* the graph raised in the answer node and the endpoint answered 500
C15_Witness ==
    /\ pc = "raised"
    /\ step_count = 3
    /\ result.error
    /\ response.status = 500

\* C14: under hybrid_balanced hybrid_search returns at most k documents,
\* whatever the two retrievers returned.
C14_BalancedAtMostK ==
    (AfterHybridSearch /\ search_strategy = "hybrid_balanced") =>
        Len(documents) <= k

\* the internal search ended by a failure of the embedding call
EmbedFailed == branch.int.err = "provider_error" /\ calls.index = 0

\* C17: when the embedding provider fails on a miss, it was called once and
\* not again, no entry for the text is in the cache, the failure reached the
\* internal retriever, which returned [] without querying the index.
C17_EmbedFailureNoRetryNoEntry ==
    EmbedFailed =>
        /\ calls.embed = 1
        /\ processed \notin CacheKeys(embedding_cache)
        /\ branch.int.st = "done"
        /\ branch.int.docs = << >>
        /\ AfterAgentSearch => internal_results = << >>
        /\ AfterHybridSearch => internal_results = << >>

\* the embedding call failed for an expanded query and the request went on
\* with the external documents alone
C17_Witness ==
    /\ EmbedFailed
    /\ prog = "agent" /\ pc = "answer_node"
    /\ processed # query
    /\ external_results # << >>

\* the external retriever returned the list built from a response
ExternalAnswered == branch.ext.st = "done" /\ branch.ext.err = "none"

\* the list starts with the one summary document when the response had an
\* answer, has none otherwise, and goes on with the results in their order
SummaryThenResults(docs) ==
    LET lead == IF calls.tavily_answer = "yes" THEN 1 ELSE 0 IN
    /\ Len(docs) = lead + calls.tavily_results
    /\ lead = 1 => docs[1] = [source_type |-> "external_summary", rank |-> 0,
                              score |-> SummaryScore]
    /\ \A i \in (lead + 1)..Len(docs) :
          /\ docs[i].source_type = "external"
          /\ docs[i].rank = i - lead

\* C18 as stated: summary first with score 1.0 when the response has one,
\* no summary document otherwise, the results after it in provider order,
\* and so at most k + 1 documents for a request of k.
C18_SummaryFirstAtMostKPlusOne ==
    ExternalAnswered =>
        /\ SummaryThenResults(branch.ext.docs)
        /\ Len(branch.ext.docs) <= req.ext + 1

\* C18 (amended): summary first with score 1.0 when the response has one,
\* no summary document otherwise, the results after it in provider order;
\* the list has one document more than the response has results when there
\* is a summary, hence at most k + 1 when the provider returned at most k.
C18_SummaryFirstThenResults ==
    ExternalAnswered =>
        /\ SummaryThenResults(branch.ext.docs)
        /\ calls.tavily_results <= req.ext => Len(branch.ext.docs) <= req.ext + 1

\* a response with a summary and as many results as were asked for
C18_Witness ==
    /\ ExternalAnswered
    /\ calls.tavily_answer = "yes"
    /\ req.ext >= 2
    /\ calls.tavily_results = req.ext
    /\ Len(branch.ext.docs) = req.ext + 1

\* the agent is between two nodes, or at the end of its run
BetweenNodes == prog = "agent" /\ pc \in Nodes \cup {"END"}

\* C21: every node that ran added exactly 1 to step_count, on its normal,
\* early-exit and error paths alike, and nothing else changes step_count:
\* between nodes step_count is the number of nodes that ran, inside the
\* search node it still lacks that node's 1, and the step_count that ask
\* reports is the number of nodes that ran.
C21_StepCountCountsStages ==
    /\ BetweenNodes => step_count = Len(calls.ran)
    /\ (prog = "agent" /\ pc = "search_wait") => step_count = Len(calls.ran) - 1
    /\ (prog = "agent" /\ pc = "raised") => step_count = Len(calls.ran)
    /\ (prog = "agent" /\ result.st = "returned" /\ ~result.error) =>
          result.step_count = Len(calls.ran)
    /\ prog # "agent" => step_count = 0

\* the chat completion failed in the fourth node and ask reported 4 steps
C21_Witness ==
    /\ prog = "agent" /\ pc = "END"
    /\ calls.chat_error # "none"
    /\ Len(calls.ran) = 4
    /\ result.st = "returned"
    /\ result.step_count = 4

\* the request is over: the graph ended or raised, or ask returned
Terminal == pc \in {"END", "raised", "returned"}

\* C23: started with step_count 0 every run ends, after at most four
\* nodes: step_count never exceeds 4, so no run ends by the step ceiling.
C23_EndsWithinFourStages ==
    /\ [](step_count <= 4 /\ Len(calls.ran) <= 4)
    /\ <>Terminal

\* a run that went through all four nodes
C23_Witness ==
    /\ prog = "agent" /\ pc = "END"
    /\ step_count = 4
    /\ calls.ran = << "entry_node", "strategy_node", "search_node", "answer_node" >>

\* the nodes in the order of the graph's edges
NodeOrder == << "entry_node", "strategy_node", "search_node", "answer_node" >>

\* what holds of the nodes that ran so far in a run of the agent
StagesInOrder ==
    prog = "agent" =>
        /\ Len(calls.ran) <= 4
        /\ calls.ran = SubSeq(NodeOrder, 1, Len(calls.ran))
        /\ Len(calls.ran) >= 2 => NonBlank(query)
        /\ (Len(calls.ran) >= 3 \/ calls.internal + calls.external > 0) =>
              /\ search_strategy \in Strategies
              /\ Len(calls.ran) >= 3
        /\ (Len(calls.ran) = 4 \/ calls.chat > 0) =>
              /\ ~BothEmpty
              /\ Len(calls.ran) = 4
              /\ calls.chat = 1
        /\ calls.internal <= 1 /\ calls.external <= 1

\* C24: the nodes run in the order entry, strategy, search, answer, each at
\* most once; the analyser runs only on a non-blank query, the retrievers
\* only with a strategy chosen, the chat completion only with a document
\* found; and once the run has ended no node runs.
C24_StagesInOrderOnce ==
    /\ []StagesInOrder
    /\ [][(prog = "agent" /\ pc \in {"END", "raised"}) =>
             (pc' = pc /\ calls'.ran = calls.ran /\ calls'.chat = calls.chat
              /\ step_count' = step_count)]_vars

\* a run ended after the search node, which found nothing
C24_Witness ==
    /\ prog = "agent" /\ pc = "END"
    /\ calls.ran = << "entry_node", "strategy_node", "search_node" >>
    /\ calls.internal = 1 /\ calls.external = 1
    /\ result.st = "returned"

HybridStrategy == search_strategy \in Strategies \ {"internal_only"}

Waiting == pc \in {"search_wait", "hybrid_wait"}

\* C25: under a hybrid strategy both retrievals are started together and
\* run side by side; the results are taken and merged only when both are
\* done, and the merged list is the merge of the two lists for the strategy
\* and k, whichever retrieval completed first.
C25_MergeAfterBothBranches ==
    HybridStrategy =>
        /\ Waiting => (branch.int.st # "idle" /\ branch.ext.st # "idle")
        /\ (AfterHybridSearch \/ AfterAgentSearch) =>
              /\ branch.int.st = "done" /\ branch.ext.st = "done"
              /\ calls.finished \in { << "int", "ext" >>, << "ext", "int" >> }
              /\ internal_results = branch.int.docs
              /\ external_results = branch.ext.docs
        /\ AfterHybridSearch =>
              documents = Merge(search_strategy, branch.int.docs, branch.ext.docs, k)

\* the external retrieval completed while the internal one was between its
\* embedding and its index query, and the merge put the internal documents
\* first all the same
C25_Witness ==
    /\ AfterHybridSearch
    /\ search_strategy = "hybrid_internal_priority"
    /\ calls.finished = << "ext", "int" >>
    /\ branch.int.docs # << >> /\ branch.ext.docs # << >>
    /\ documents[1].source_type = "internal"

\* the agent's search node has asked the retrievers
AgentAsked == prog = "agent" /\ Len(calls.ran) >= 3 /\ search_strategy \in Strategies

\* C28: with k = 5 the agent's search node asks the retrievers for the
\* sizes of hybrid_search: internal_only 5 internal and no external;
\* external_priority 4 external and 2 internal; hybrid_balanced 2 and 2;
\* hybrid_internal_priority 4 internal and 2 external.
C28_AgentRequestsMergerSizes ==
    AgentAsked =>
        /\ search_strategy = "internal_only" => req = [int |-> 5, ext |-> 0]
        /\ search_strategy = "external_priority" => req = [int |-> 2, ext |-> 4]
        /\ search_strategy = "hybrid_balanced" => req = [int |-> 2, ext |-> 2]
        /\ search_strategy = "hybrid_internal_priority" => req = [int |-> 4, ext |-> 2]
        /\ req = RagRequest(search_strategy, 5)

\* C29: the documents the agent's answer node puts in the prompt are the
\* merge of the two result lists under the strategy's policy, at most 5:
\* external first under external_priority, internal first under
\* hybrid_internal_priority, interleaved under hybrid_balanced.
C29_AgentContextMerged ==
    (prog = "agent" /\ calls.chat = 1) =>
        /\ Len(documents) <= 5
        /\ search_strategy = "external_priority" =>
              documents = Take(external_results \o internal_results, 5)
        /\ search_strategy = "hybrid_internal_priority" =>
              documents = Take(internal_results \o external_results, 5)
        /\ search_strategy = "hybrid_balanced" =>
              documents = Take(FullInterleave(internal_results, external_results), 5)

\* C20: the strategy the agent chooses for a query is the analyser's
\* result on the preprocessed query, so that the words the expansion adds
\* count as keywords.
C20_ClassifiesExpandedQuery ==
    (prog = "agent" /\ search_strategy # "") =>
        search_strategy = strategy_analyzer_tool(preprocess_query_for_context(query))

-----------------------------------------------------------------------------
(* Properties of the embedding cache under sequential calls (SpecCache) *)

\* C7: a call for a cached text returns the stored vector, calls the
\* provider not at all and leaves the cache as it was; so of two calls in a
\* row for one text, the first a successful miss, only the first calls the
\* provider.
C7_HitNoProviderCall ==
    /\ cache_log.last.outcome = "hit" =>
          /\ cache_log.last.text \in CacheKeys(cache_log.last.before)
          /\ cache_log.last.vector = CacheValue(cache_log.last.before, cache_log.last.text)
          /\ cache_log.last.provider_calls = 0
          /\ embedding_cache = cache_log.last.before
    /\ (cache_log.prev.outcome \in {"hit", "miss_ok"}
          /\ cache_log.prev.text = cache_log.last.text) =>
          /\ cache_log.last.outcome = "hit"
          /\ cache_log.last.provider_calls = 0

\* the same text asked twice in a row from the empty cache: one provider call
C7_Witness ==
    /\ cache_log.prev.outcome = "miss_ok"
    /\ cache_log.prev.text = cache_log.last.text
    /\ cache_log.last.outcome = "hit"
    /\ calls.embed = 1

\* C8: the cache never holds more than max_cache_size entries, and right
\* after the successful request that brings the number of distinct texts
\* served to max_cache_size + 1 (or more) it holds exactly max_cache_size.
C8_CacheBounded ==
    /\ Len(embedding_cache) <= max_cache_size
    /\ Cardinality(CacheKeys(embedding_cache)) = Len(embedding_cache)
    /\ (cache_log.last.outcome = "miss_ok"
          /\ Cardinality(cache_log.served) >= max_cache_size + 1) =>
          Len(embedding_cache) = max_cache_size

\* max_cache_size + 1 distinct texts asked from the empty cache, each call
\* a success
C8_Witness ==
    /\ Cardinality(cache_log.served) = max_cache_size + 1
    /\ calls.embed = max_cache_size + 1
    /\ cache_log.last.outcome = "miss_ok"
    /\ Len(embedding_cache) = max_cache_size

BornAt(text) == (CHOOSE b \in cache_log.born : b.key = text).at

\* C16: a miss on a full cache deletes exactly one entry, the one stored
\* earliest of those in the cache, and then stores the new one last; a hit
\* changes nothing, the order of eviction included.
C16_EvictOldestInserted ==
    LET before == cache_log.last.before
        text   == cache_log.last.text
        gone   == CacheKeys(before) \ CacheKeys(embedding_cache)
    IN  /\ (cache_log.last.outcome \in {"miss_ok", "miss_fail"}
              /\ Len(before) >= max_cache_size) =>
              /\ Cardinality(gone) = 1
              /\ \A victim \in gone : \A other \in CacheKeys(before) :
                     BornAt(victim) <= BornAt(other)
              /\ cache_log.last.outcome = "miss_ok" =>
                     /\ CacheKeys(embedding_cache) = (CacheKeys(before) \ gone) \cup {text}
                     /\ embedding_cache[Len(embedding_cache)].key = text
        /\ (cache_log.last.outcome \in {"miss_ok", "miss_fail"}
              /\ Len(before) < max_cache_size) => gone = {}
        /\ cache_log.last.outcome = "hit" => embedding_cache = before

\* a full cache, a hit on its oldest entry, then a miss that evicted that
\* same entry
C16_Witness ==
    /\ cache_log.prev.outcome = "hit"
    /\ cache_log.last.outcome = "miss_ok"
    /\ Len(cache_log.last.before) = max_cache_size
    /\ cache_log.prev.text = cache_log.last.before[1].key
    /\ cache_log.prev.text \notin CacheKeys(embedding_cache)

\* C30: a failed provider call on a miss leaves a full cache without its
\* oldest entry and without an entry for the text, max_cache_size - 1
\* entries in all; it leaves a cache that is not full as it was.
C30_FailedMissKeepsEviction ==
    LET before == cache_log.last.before IN
    cache_log.last.outcome = "miss_fail" =>
        /\ cache_log.last.text \notin CacheKeys(embedding_cache)
        /\ Len(before) >= max_cache_size =>
              /\ embedding_cache = Tail(before)
              /\ before[1].key \notin CacheKeys(embedding_cache)
              /\ Len(embedding_cache) = max_cache_size - 1
        /\ Len(before) < max_cache_size => embedding_cache = before

\* the provider failed on a miss with the cache full
C30_Witness ==
    /\ cache_log.last.outcome = "miss_fail"
    /\ Len(cache_log.last.before) = max_cache_size
    /\ Len(embedding_cache) = max_cache_size - 1

-----------------------------------------------------------------------------
(* Properties of generate_accessible_context (SpecRender) *)

CountOf(docs, types) ==
    Cardinality({ i \in 1..Len(docs) : docs[i].source_type \in types })

IsSummaryOf(part, docs) ==
    /\ part.kind = "summary"
    /\ part.internal_count = CountOf(docs, {"internal"})
    /\ part.external_count = CountOf(docs, {"external", "external_summary"})

\* the parts from position `first` on are the blocks of the documents,
\* numbered 1..n in the order of the list
BlocksFrom(first, docs) ==
    \A i \in 1..Len(docs) :
        /\ context[first + i - 1].number = i
        /\ context[first + i - 1].kind =
               IF docs[i].source_type = "internal" THEN "internal_block"
               ELSE IF docs[i].source_type \in {"external", "external_summary"}
                    THEN "external_block"
               ELSE "plain_block"

\* C19 as stated: the fixed sentence for the empty list; otherwise one block
\* per document, numbered 1..n in list order, followed by the summary line
\* with the counts of internal and of external documents.
C19_BlocksThenSummary ==
    pc = "rendered" =>
        IF documents = << >> THEN context = << NoInfoPart >>
        ELSE /\ Len(context) = Len(documents) + 1
             /\ BlocksFrom(1, documents)
             /\ IsSummaryOf(context[Len(context)], documents)

\* C19 (amended): the fixed sentence for the empty list; otherwise the
\* summary line with the counts of internal and of external documents,
\* followed by one block per document, numbered 1..n in list order.
C19_SummaryThenBlocks ==
    pc = "rendered" =>
        IF documents = << >> THEN context = << NoInfoPart >>
        ELSE /\ Len(context) = Len(documents) + 1
             /\ IsSummaryOf(context[1], documents)
             /\ BlocksFrom(2, documents)

\* a list with an internal document, a summary and a web result was rendered
C19_Witness ==
    /\ pc = "rendered"
    /\ Len(documents) = 3
    /\ \A t \in SourceTypes : \E i \in 1..3 : documents[i].source_type = t
    /\ context[1].external_count = 2

-----------------------------------------------------------------------------
(* Properties of the routing functions (SpecRoute) *)

Routed == prog \in {"route_after_entry", "route_after_strategy", "route_after_search"}

\* C22: each routing function answers END when step_count exceeds 10,
\* whatever the query, the strategy and the result lists are, so that it
\* names a node only for a step_count of at most 10.
C22_CeilingEndsRun ==
    Routed =>
        /\ step_count > 10 => pc = "END"
        /\ pc \in Nodes => step_count <= 10
        /\ pc \in Nodes \cup {"END"}

\* a state that would go on to the search node but for its step_count of 11
C22_Witness ==
    /\ prog = "route_after_strategy"
    /\ search_strategy # ""
    /\ step_count = 11
    /\ pc = "END"

-----------------------------------------------------------------------------
(* Properties of the embedding cache under concurrent calls (SpecConc) *)

\* C26: whatever the interleaving of the threads' steps, the cache never
\* holds more than max_cache_size entries.
C26_ConcurrentCacheBounded ==
    prog = "service" => Len(embedding_cache) <= max_cache_size

\* C27: a concurrent call fails only when its own provider call fails (no
\* call ends with an exception of the dict), and the cache holds a single
\* entry for a text.
C27_ConcurrentCallsComplete ==
    prog = "service" =>
        /\ \A t \in ThreadIds : threads[t].outcome \notin DictErrors
        /\ Cardinality(CacheKeys(embedding_cache)) = Len(embedding_cache)

====
